---- MODULE Spec2Model ----
(***************************************************************************)
(* Model of generate_organisation_metadata.py: a script that loads its     *)
(* settings, downloads the organisations table if it is missing, calls     *)
(* _f (a disk-cached language-model query) on every row whose website is   *)
(* an https:// string, dumps the results as JSON and writes a merged,      *)
(* sorted CSV report.  The disk cache and the input file outlive a run, so *)
(* the model lets the script be run again and again over the same cache.   *)
(*                                                                         *)
(* A text is a TLA+ string where only a prefix test is applied to it, and  *)
(* a sequence of tokens where the code edits it (the model's output).      *)
(* A dict is a function from its keys; a key the dict lacks is not in the  *)
(* DOMAIN.  A DataFrame is a sequence of such rows, NaN being a key the    *)
(* row lacks.  Confidence 0.91 is written as the integer 91.               *)
(***************************************************************************)
EXTENDS Integers, Sequences, FiniteSets, TLC

VARIABLES
    pc,          \* the statement the script is at
    api_key,     \* whether MISTRAL_API_KEY is defined in the environment
    input_file,  \* orgs.xlsx on disk: NoFile, or File(the table it holds)
    df_orgs,     \* the table read from orgs.xlsx (line 98)
    i,           \* position of the row iterator of the loop (line 131)
    x_out,       \* the result list (line 130)
    x_dict,      \* the list re-read from the JSON file (line 144)
    csv_rows,    \* the report of this run: NoReport, or the rows given to to_csv
    cache,       \* the disk cache: url -> stored result
    call,        \* what the last step's call of _f did (NoCall: it made none)
    firstOk,     \* history, kept under SpecHistory only: url -> the first
                 \* result without exception a call of _f has returned since
                 \* the cache was last cleared
    error        \* the uncaught exception that ended the run, or "none"

vars == <<pc, api_key, input_file, df_orgs, i, x_out, x_dict, csv_rows,
          cache, call, firstOk, error>>

(***************************************************************************)
(* Bounds                                                                  *)
(***************************************************************************)
MaxRows == 2

(***************************************************************************)
(* The input table                                                         *)
(***************************************************************************)
\* A spreadsheet cell: a string, or NaN (an empty cell, a float)
Str(s) == [isstr |-> TRUE, s |-> s]

NaN == [isstr |-> FALSE, s |-> "nan"]

Row(w, t, l) ==
    [organization_website |-> w, form_of_organization |-> t,
     location_country |-> l]

InputRows ==
    { Row(Str("https://a.org"), "NGO", "DE"),
      Row(Str("https://a.org"), "Company", "US"),
      Row(Str("https://b.org"), "NGO", "DE"),
      Row(Str("http://c.org"), "Company", "US"),
      Row(NaN, "NGO", "DE") }

Tables == UNION { [1..n -> InputRows] : n \in 0..MaxRows }

\* orgs.xlsx: absent, or holding a table
NoFile == [exists |-> FALSE, table |-> <<>>]

File(t) == [exists |-> TRUE, table |-> t]

(***************************************************************************)
(* Line 133: isinstance(x, str) and x.startswith("https://")               *)
(***************************************************************************)
startswith(s, prefix) ==
    Len(s) >= Len(prefix) /\ SubSeq(s, 1, Len(prefix)) = prefix

\* Mutant: the prefix test left out
Accepts_AnyString(x) == x.isstr

Accepts(x) == x.isstr /\ startswith(x.s, "https://")

(***************************************************************************)
(* What one attempt of lines 109-113 can meet                              *)
(***************************************************************************)
\* str(e) of the exception raised
HTTPErrors ==
    { [kind |-> "ModelHTTPError", status_code |-> 401, msg |-> "status_code: 401"],
      [kind |-> "ModelHTTPError", status_code |-> 403, msg |-> "status_code: 403"],
      [kind |-> "ModelHTTPError", status_code |-> 500, msg |-> "status_code: 500"] }

OtherErrors ==
    { [kind |-> "Exception", status_code |-> 0, msg |-> "connection timed out"] }

\* The tokens of a model answer that lines 114-115 tell apart: a line
\* break, a fence of three backticks, the word json, brackets, and the
\* text between them
NL == "\n"

Fence == "<fence>"

\* x.output, as tokens
Outputs ==
    { <<Fence, "json", "{", "C91", "}", Fence>>,
      <<"{", NL, "C50", NL, "}">>,
      <<"json", NL, "{", "C91", "}">>,
      <<"{", "C91", "// comment", "}">>,
      <<"{", "C50">>,
      <<Fence, "json", "[", "C91", "]", Fence>>,
      <<"42">>,
      <<"\"unknown\"">> }

Texts == { [kind |-> "text", output |-> t] : t \in Outputs }

Outcomes == HTTPErrors \cup OtherErrors \cup Texts

NoOutcome == [kind |-> "none"]

(***************************************************************************)
(* Dicts and the disk cache                                                *)
(***************************************************************************)
None == [None |-> TRUE]

NoResult == [NoResult |-> TRUE]

EmptyCache == [u \in {} |-> None]

\* d[k] = v
SetItem(d, k, v) == [x \in DOMAIN d \cup {k} |-> IF x = k THEN v ELSE d[x]]

\* cache.get(url), line 105: None for a key the cache lacks
cache_get(url) == IF url \in DOMAIN cache THEN cache[url] ELSE None

\* cache.add(url, out), line 123: stores only if the key is not present
cache_add(url, out) ==
    IF url \in DOMAIN cache
    THEN cache
    ELSE [u \in DOMAIN cache \cup {url} |-> IF u = url THEN out ELSE cache[u]]

\* Mutant: any stored entry is a hit, a stored failure too
CacheHit_AnyEntry(c) == c # None /\ DOMAIN c # {}

\* Line 106: c and (c.get("exception") is None).  No stored value holds a
\* null, so get() is None exactly for a key the dict lacks.
CacheHit(c) == c # None /\ DOMAIN c # {} /\ "exception" \notin DOMAIN c

(***************************************************************************)
(* Lines 114-115: the clean-up of the answer and json.loads                *)
(***************************************************************************)
\* str.replace(tok, "")
Remove(s, tok) == SelectSeq(s, LAMBDA t : t # tok)

\* str.replace("json{", "{")
RECURSIVE ReplaceJsonBrace(_)
ReplaceJsonBrace(s) ==
    IF Len(s) < 2 THEN s
    ELSE IF s[1] = "json" /\ s[2] = "{"
         THEN <<"{">> \o ReplaceJsonBrace(SubSeq(s, 3, Len(s)))
         ELSE <<s[1]>> \o ReplaceJsonBrace(Tail(s))

clean_x(output) == ReplaceJsonBrace(Remove(Remove(output, NL), Fence))

\* The members of a JSON object, parsed
Members(tok) ==
    CASE tok = "C91" -> [Type |-> "Non-profit", Location |-> "US", Confidence |-> 91]
      [] tok = "C50" -> [Type |-> "Company", Location |-> "DE", Confidence |-> 50]

\* json.loads: an object gives a dict, an array a list, a number or a string
\* itself; any other text raises JSONDecodeError
json_loads(s) ==
    IF Len(s) = 3 /\ s[1] = "{" /\ s[3] = "}" /\ s[2] \in {"C91", "C50"}
    THEN [t |-> "dict", v |-> Members(s[2])]
    ELSE IF Len(s) = 3 /\ s[1] = "[" /\ s[3] = "]" /\ s[2] \in {"C91", "C50"}
    THEN [t |-> "list", v |-> NoResult]
    ELSE IF s = <<"42">> THEN [t |-> "int", v |-> NoResult]
    ELSE IF s = <<"\"unknown\"">> THEN [t |-> "str", v |-> NoResult]
    ELSE [t |-> "JSONDecodeError", v |-> NoResult]

JSONDecodeErrorText == "Expecting value"

(***************************************************************************)
(* _f, lines 104-124                                                       *)
(***************************************************************************)
\* Mutant: 403 left out of the list
Warns_Only401(e) == e.status_code \in {401}

\* Line 117: e.status_code in [401, 403], so warnings.warn is called
Warns(e) == e.status_code \in {401, 403}

\* Lines 119 and 121: dict(exception=str(e))
ExceptionDict(text) == [exception |-> text]

\* Lines 108-121: the value of out after the try statement, and whether
\* the warning of line 118 was emitted
Attempt(o) ==
    IF o.kind = "ModelHTTPError"
    THEN [t |-> "dict", v |-> ExceptionDict(o.msg), warned |-> Warns(o)]
    ELSE IF o.kind = "Exception"
    THEN [t |-> "dict", v |-> ExceptionDict(o.msg), warned |-> FALSE]
    ELSE LET parsed == json_loads(clean_x(o.output))
         IN  IF parsed.t = "JSONDecodeError"
             THEN [t |-> "dict", v |-> ExceptionDict(JSONDecodeErrorText),
                   warned |-> FALSE]
             ELSE [t |-> parsed.t, v |-> parsed.v, warned |-> FALSE]

NoCall ==
    [made |-> FALSE, url |-> "", hit |-> FALSE, external |-> FALSE,
     outcome |-> NoOutcome, warned |-> FALSE, adds |-> 0, raised |-> "none",
     result |-> NoResult]

\* One call _f(url) in which the attempt, if one is made, meets o.  Line 122
\* is outside the try statement: out["url"] = url raises TypeError when out
\* is a list, a number or a string, and line 123 is then not reached.
F(url, o) ==
    LET c == cache_get(url)
    IN  IF CacheHit(c)
        THEN [made |-> TRUE, url |-> url, hit |-> TRUE, external |-> FALSE,
              outcome |-> NoOutcome, warned |-> FALSE, adds |-> 0,
              raised |-> "none", result |-> c]
        ELSE LET a == Attempt(o)
             IN  IF a.t = "dict"
                 THEN [made |-> TRUE, url |-> url, hit |-> FALSE,
                       external |-> TRUE, outcome |-> o, warned |-> a.warned,
                       adds |-> 1, raised |-> "none",
                       result |-> SetItem(a.v, "url", url)]
                 ELSE [made |-> TRUE, url |-> url, hit |-> FALSE,
                       external |-> TRUE, outcome |-> o, warned |-> a.warned,
                       adds |-> 0, raised |-> "TypeError",
                       result |-> NoResult]

\* The cache after the call
CacheAfter(f) ==
    IF f.adds = 1 THEN cache_add(f.url, f.result) ELSE cache

\* What the attempt of a call can meet: nothing on a cache hit
Meets(url) == IF CacheHit(cache_get(url)) THEN {NoOutcome} ELSE Outcomes

(***************************************************************************)
(* The report writer, lines 146-165                                        *)
(***************************************************************************)
NoReport == [written |-> FALSE, rows |-> <<>>]

ReportColumns ==
    {"url", "Confidence", "manual_Type", "Type", "manual_Location", "Location"}

\* pd.DataFrame(x_dict): the columns are the keys of the dicts
Columns(rows) == UNION { DOMAIN rows[k] : k \in 1..Len(rows) }

\* The rows of df_orgs whose organization_website equals url, in table order
RightMatches(url) ==
    SelectSeq(df_orgs, LAMBDA r : r.organization_website.isstr
                                  /\ r.organization_website.s = url)

\* A left row with the renamed columns of one right row (lines 153-159)
JoinRow(l, r) ==
    [k \in DOMAIN l \cup {"manual_Type", "manual_Location"} |->
        IF k = "manual_Type" THEN r.form_of_organization
        ELSE IF k = "manual_Location" THEN r.location_country
        ELSE l[k]]

\* how="left", on="url": every left row, once per right row that matches
\* it, and once without the right columns when none does
MergeRow(l) ==
    LET m == RightMatches(l["url"])
    IN  IF Len(m) = 0 THEN <<l>> ELSE [j \in 1..Len(m) |-> JoinRow(l, m[j])]

RECURSIVE merge(_)
merge(left) ==
    IF Len(left) = 0 THEN <<>> ELSE MergeRow(Head(left)) \o merge(Tail(left))

\* df_out[[...]], lines 163-164
Project(row) == [k \in DOMAIN row \cap ReportColumns |-> row[k]]

\* sort_values("Confidence", ascending=False): descending, rows without a
\* Confidence last (na_position="last"); rows that tie keep their order
RECURSIVE InsertDesc(_, _)
InsertDesc(t, r) ==
    IF Len(t) = 0 THEN <<r>>
    ELSE IF t[Len(t)]["Confidence"] >= r["Confidence"] THEN Append(t, r)
    ELSE Append(InsertDesc(SubSeq(t, 1, Len(t) - 1), r), t[Len(t)])

RECURSIVE SortDesc(_)
SortDesc(t) ==
    IF Len(t) = 0 THEN <<>>
    ELSE InsertDesc(SortDesc(SubSeq(t, 1, Len(t) - 1)), t[Len(t)])

\* Mutant: ascending=False left out
sort_values_Ascending(rows) ==
    LET d == SortDesc(SelectSeq(rows, LAMBDA r : "Confidence" \in DOMAIN r))
    IN  [k \in 1..Len(d) |-> d[Len(d) + 1 - k]]
            \o SelectSeq(rows, LAMBDA r : "Confidence" \notin DOMAIN r)

sort_values(rows) ==
    SortDesc(SelectSeq(rows, LAMBDA r : "Confidence" \in DOMAIN r))
        \o SelectSeq(rows, LAMBDA r : "Confidence" \notin DOMAIN r)

\* Whether lines 146-165 raise KeyError: merge finds no column url in a
\* frame made from an empty list, and the selection of line 164 finds no
\* column Confidence, Type or Location when no result has that key
ReportRaises(rows) ==
    \/ "url" \notin Columns(rows)
    \/ ~(ReportColumns \subseteq
            (Columns(rows) \cup {"manual_Type", "manual_Location"}))

Report(rows) ==
    LET df_out    == merge(rows)
        projected == [k \in 1..Len(df_out) |-> Project(df_out[k])]
    IN  [written |-> TRUE, rows |-> sort_values(projected)]

(***************************************************************************)
(* The script                                                              *)
(***************************************************************************)
Init ==
    /\ pc = "configure"
    /\ api_key \in BOOLEAN
    /\ input_file = NoFile
    /\ df_orgs = <<>>
    /\ i = 1
    /\ x_out = <<>>
    /\ x_dict = <<>>
    /\ csv_rows = NoReport
    /\ cache = EmptyCache
    /\ call = NoCall
    /\ firstOk = EmptyCache
    /\ error = "none"

\* Lines 80-85: Settings() raises ValidationError without MISTRAL_API_KEY
Configure ==
    /\ pc = "configure"
    /\ IF api_key
       THEN pc' = "download" /\ error' = error
       ELSE pc' = "failed" /\ error' = "ValidationError"
    /\ call' = NoCall
    /\ UNCHANGED <<api_key, input_file, df_orgs, i, x_out, x_dict, csv_rows,
                   cache, firstOk>>

\* Lines 68-70 and 94: download orgs.xlsx only if it is not there; the
\* download gives some table, or urlretrieve raises
Download ==
    /\ pc = "download"
    /\ IF input_file.exists
       THEN /\ pc' = "read"
            /\ UNCHANGED <<input_file, error>>
       ELSE \/ /\ \E t \in Tables : input_file' = File(t)
               /\ pc' = "read"
               /\ error' = error
            \/ /\ pc' = "failed"
               /\ error' = "URLError"
               /\ input_file' = input_file
    /\ call' = NoCall
    /\ UNCHANGED <<api_key, df_orgs, i, x_out, x_dict, csv_rows, cache,
                   firstOk>>

\* Lines 98 and 130
ReadInput ==
    /\ pc = "read"
    /\ df_orgs' = input_file.table
    /\ x_out' = <<>>
    /\ i' = 1
    /\ pc' = "loop"
    /\ call' = NoCall
    /\ UNCHANGED <<api_key, input_file, x_dict, csv_rows, cache, firstOk,
                   error>>

\* The first result without exception returned for each url
NoteFirstOk(f) ==
    IF f.raised = "none" /\ "exception" \notin DOMAIN f.result
       /\ f.url \notin DOMAIN firstOk
    THEN [u \in DOMAIN firstOk \cup {f.url} |->
             IF u = f.url THEN f.result ELSE firstOk[u]]
    ELSE firstOk

\* Lines 131-134: one iteration of the row loop (history: whether firstOk
\* is kept up to date)
LoopRow(history) ==
    /\ pc = "loop"
    /\ i <= Len(df_orgs)
    /\ LET x == df_orgs[i].organization_website
       IN  IF Accepts(x)
           THEN \E o \in Meets(x.s) :
                   LET f == F(x.s, o)
                   IN  /\ call' = f
                       /\ cache' = CacheAfter(f)
                       /\ firstOk' = IF history THEN NoteFirstOk(f) ELSE firstOk
                       /\ IF f.raised = "none"
                          THEN /\ x_out' = Append(x_out, f.result)
                               /\ i' = i + 1
                               /\ UNCHANGED <<pc, error>>
                          ELSE /\ pc' = "failed"
                               /\ error' = f.raised
                               /\ UNCHANGED <<x_out, i>>
           ELSE /\ i' = i + 1
                /\ call' = NoCall
                /\ UNCHANGED <<pc, error, x_out, cache, firstOk>>
    /\ UNCHANGED <<api_key, input_file, df_orgs, x_dict, csv_rows>>

\* Lines 140-144, once the iterator is exhausted: write the JSON file and
\* read it back
DumpJSON ==
    /\ pc = "loop"
    /\ i > Len(df_orgs)
    /\ x_dict' = x_out
    /\ pc' = "report"
    /\ call' = NoCall
    /\ UNCHANGED <<api_key, input_file, df_orgs, i, x_out, csv_rows, cache,
                   firstOk, error>>

\* Lines 146-165
WriteReport ==
    /\ pc = "report"
    /\ IF ReportRaises(x_dict)
       THEN /\ pc' = "failed"
            /\ error' = "KeyError"
            /\ csv_rows' = csv_rows
       ELSE /\ pc' = "done"
            /\ error' = error
            /\ csv_rows' = Report(x_dict)
    /\ call' = NoCall
    /\ UNCHANGED <<api_key, input_file, df_orgs, i, x_out, x_dict, cache,
                   firstOk>>

\* The script is run again: a new process, the same disk
Restart ==
    /\ pc \in {"done", "failed"}
    /\ pc' = "configure"
    /\ api_key' \in BOOLEAN
    /\ df_orgs' = <<>>
    /\ i' = 1
    /\ x_out' = <<>>
    /\ x_dict' = <<>>
    /\ csv_rows' = NoReport
    /\ call' = NoCall
    /\ error' = "none"
    /\ UNCHANGED <<input_file, cache, firstOk>>

\* The cache directory is deleted by hand between two runs
ClearCache ==
    /\ pc \in {"done", "failed"}
    /\ DOMAIN cache # {}
    /\ cache' = EmptyCache
    /\ firstOk' = EmptyCache
    /\ call' = NoCall
    /\ UNCHANGED <<pc, api_key, input_file, df_orgs, i, x_out, x_dict,
                   csv_rows, error>>

Run(history) ==
    \/ Configure
    \/ Download
    \/ ReadInput
    \/ LoopRow(history)
    \/ DumpJSON
    \/ WriteReport
    \/ Restart
    \/ ClearCache

Next == Run(FALSE)

Spec == Init /\ [][Next]_vars

\* The same script, with the history variable firstOk recorded
NextHistory == Run(TRUE)

SpecHistory == Init /\ [][NextHistory]_vars

(***************************************************************************)
(* The row the loop is at, and what a call of _f does with it              *)
(***************************************************************************)
AtRow == pc = "loop" /\ i <= Len(df_orgs)

Website == df_orgs[i].organization_website

HttpsString(x) == x.isstr /\ Len(x.s) >= 8 /\ SubSeq(x.s, 1, 8) = "https://"

Failed(d) == "exception" \in DOMAIN d

Range(s) == { s[k] : k \in 1..Len(s) }

(***************************************************************************)
(* C1: idempotence of _f.  When a call _f(u) has returned a result without *)
(* an exception field, whatever the cache held before it, the next call    *)
(* _f(u) makes no external call and returns that same value.               *)
(***************************************************************************)
C1_Idempotence ==
    [][ ( /\ call.made /\ call.raised = "none" /\ ~Failed(call.result)
          /\ call'.made /\ call'.url = call.url )
        => ( ~call'.external /\ call'.raised = "none"
             /\ call'.result = call.result ) ]_vars

(***************************************************************************)
(* C3: per-URL failures never abort the batch.  Whatever the attempt for   *)
(* a row meets, _f returns a result for the row's URL and the loop goes on *)
(* to the next row.                                                        *)
(***************************************************************************)
C3_NeverAborts ==
    [][ AtRow
        => ( /\ pc' = "loop" /\ i' = i + 1 /\ error' = "none"
             /\ HttpsString(Website)
                  => ( /\ call'.made /\ call'.raised = "none"
                       /\ x_out' = Append(x_out, call'.result) ) ) ]_vars

(***************************************************************************)
(* C7: the report writer tolerates failed rows.  Whatever list the loop    *)
(* has produced, the report step ends without error and writes the CSV.    *)
(***************************************************************************)
C7_ReportTolerates ==
    [][ pc = "report" => (pc' = "done" /\ error' = "none" /\ csv_rows'.written) ]_vars

(***************************************************************************)
(* C8: every call of _f that is not a cache hit attaches url to its result *)
(* and makes exactly one insert-if-absent write: an entry the cache holds  *)
(* for the URL stays as it is, and no other URL's entry changes.           *)
(***************************************************************************)
C8_OneInsertIfAbsent ==
    [][ (AtRow /\ call'.made /\ ~call'.hit)
        => ( /\ call'.adds = 1
             /\ call'.raised = "none"
             /\ "url" \in DOMAIN call'.result
             /\ call'.result["url"] = call'.url
             /\ IF call'.url \in DOMAIN cache
                THEN cache' = cache
                ELSE /\ DOMAIN cache' = DOMAIN cache \cup {call'.url}
                     /\ cache'[call'.url] = call'.result
                     /\ \A u \in DOMAIN cache : cache'[u] = cache[u] ) ]_vars

(***************************************************************************)
(* C9: successful results are cached for good.  Once a call _f(u) has      *)
(* returned a result without an exception field, every later call _f(u)    *)
(* before the cache is cleared makes no external call and returns that     *)
(* result.                                                                 *)
(***************************************************************************)
C9_CachedForGood ==
    [][ (call'.made /\ call'.url \in DOMAIN firstOk)
        => ( ~call'.external /\ call'.raised = "none"
             /\ call'.result = firstOk[call'.url] ) ]_vars

(***************************************************************************)
(* C10: the report has one row for each entry of the result list, that is  *)
(* for each input row that passed the URL filter, with the manual type and *)
(* location of that input row.                                             *)
(***************************************************************************)
PassedFilter == SelectSeq(df_orgs, LAMBDA r : HttpsString(r.organization_website))

C10_OneRowPerResult ==
    csv_rows.written
    => /\ Len(csv_rows.rows) = Len(x_out)
       /\ \A r \in Range(PassedFilter) :
            Cardinality({ k \in 1..Len(csv_rows.rows) :
                            /\ csv_rows.rows[k]["url"] = r.organization_website.s
                            /\ csv_rows.rows[k]["manual_Type"] = r.form_of_organization
                            /\ csv_rows.rows[k]["manual_Location"] = r.location_country })
            = Cardinality({ k \in 1..Len(PassedFilter) : PassedFilter[k] = r })

(***************************************************************************)
(* C2: retry on failure.  When the cache entry of the row's URL holds an   *)
(* exception field, the call of _f for the row is not served from the      *)
(* cache: it invokes the external model, and what it returns is the dict   *)
(* made from that new attempt, with the url attached.                      *)
(***************************************************************************)
StoredFailure(u) == u \in DOMAIN cache /\ Failed(cache[u])

C4_UrlFilter ==
    [][ AtRow
        => IF HttpsString(Website)
           THEN call'.made /\ call'.url = Website.s
           ELSE /\ call' = NoCall
                /\ cache' = cache
                /\ x_out' = x_out
                /\ i' = i + 1 ]_vars

\* The loop has passed a row whose website is a string without the prefix,
\* which it skipped, and then a row it processed
C4_Witness ==
    /\ pc = "loop" /\ i > Len(df_orgs)
    /\ Len(df_orgs) = 2
    /\ df_orgs[1].organization_website.isstr
    /\ ~HttpsString(df_orgs[1].organization_website)
    /\ Len(x_out) = 1
    /\ Len(PassedFilter) = 1
    /\ DOMAIN cache = {x_out[1]["url"]}

(***************************************************************************)
(* C5: the shape of a failure result.  When the attempt of a call _f(u)    *)
(* meets an HTTP error or any other exception, or an answer json.loads     *)
(* rejects, the call returns exactly the fields exception (the error text) *)
(* and url = u; for status 401 or 403 the warning is emitted; and the      *)
(* loop stays in progress with the result appended.                        *)
(***************************************************************************)
ErrorText(o) ==
    IF o.kind \in {"ModelHTTPError", "Exception"} THEN o.msg
    ELSE JSONDecodeErrorText

AttemptFails(o) ==
    \/ o.kind \in {"ModelHTTPError", "Exception"}
    \/ o.kind = "text" /\ json_loads(clean_x(o.output)).t = "JSONDecodeError"

C5_FailureShape ==
    (call.made /\ call.external /\ AttemptFails(call.outcome))
    => /\ call.raised = "none"
       /\ DOMAIN call.result = {"exception", "url"}
       /\ call.result["exception"] = ErrorText(call.outcome)
       /\ call.result["url"] = call.url
       /\ (call.outcome.kind = "ModelHTTPError"
           /\ call.outcome.status_code \in {401, 403}) => call.warned
       /\ pc = "loop" /\ error = "none"
       /\ Len(x_out) >= 1 /\ x_out[Len(x_out)] = call.result

\* A 403 has been met, and the loop has gone on to a further row
C5_Witness ==
    /\ Len(x_out) = 2
    /\ x_out[1] = [exception |-> "status_code: 403", url |-> "https://a.org"]
    /\ call.made /\ call.external /\ call.warned
    /\ call.outcome.kind = "ModelHTTPError" /\ call.outcome.status_code = 401

(***************************************************************************)
(* C6: report ordering.  The rows of the CSV report are in descending      *)
(* order of Confidence, and every row without a Confidence comes after     *)
(* all rows that have one.                                                 *)
(***************************************************************************)
C6_ReportOrdering ==
    csv_rows.written
    => \A j, k \in 1..Len(csv_rows.rows) :
          (j < k /\ "Confidence" \in DOMAIN csv_rows.rows[k])
          => /\ "Confidence" \in DOMAIN csv_rows.rows[j]
             /\ csv_rows.rows[j]["Confidence"] >= csv_rows.rows[k]["Confidence"]

\* A report whose rows were not in that order in the result list: a failed
\* row came first, and a lower Confidence before a higher one
C6_Witness ==
    /\ csv_rows.written
    /\ Len(x_dict) >= 2
    /\ \/ /\ Failed(x_dict[1]) /\ ~Failed(x_dict[2])
          /\ "Confidence" \notin DOMAIN csv_rows.rows[Len(csv_rows.rows)]
       \/ /\ ~Failed(x_dict[1]) /\ ~Failed(x_dict[2])
          /\ x_dict[1]["Confidence"] < x_dict[2]["Confidence"]
          /\ csv_rows.rows[1]["Confidence"] > csv_rows.rows[Len(csv_rows.rows)]["Confidence"]

====
